---- MODULE Spec2Model ----
(***************************************************************************)
(* A model of the Unstack pull-request quality gate: the PR monitor        *)
(* (scripts/pr-monitor.js), its daemon (scripts/monitor-daemon.js), the    *)
(* test runner (scripts/test-runner.js) and the refactoring analyzer       *)
(* (scripts/refactor-analyzer.js).                                         *)
(*                                                                         *)
(* Four specifications share the variables:                                *)
(*   SpecWorkflow  the two branch-switching workflows on the working tree  *)
(*   SpecDetect    the change detector as a function of remote, checkpoint *)
(*   SpecHarness   TestRunner.runAllTests, one check per step              *)
(*   Spec          the daemon: cycles interleaved at their remote calls    *)
(***************************************************************************)
EXTENDS Integers, Sequences, FiniteSets, TLC

\* ------------------------------------------------------------------ bounds

\* Units (pull requests) the remote can hold in the daemon and workflow models.
MaxUnits == 2
\* Open units of the remote in the detector model.
MaxOpen == 31
\* Largest checkpoint drawn in the detector model.
MaxCheckpoint == 3
\* Cycles (PRMonitor.start invocations) that can be in flight together.
MaxCycles == 2
\* Last instant of the daemon's clock.
MaxTime == 3
\* External commands that fail within one workflow run.
MaxFailures == 2

Units == 1..MaxUnits

\* ----------------------------------------------------------------- helpers

\* The mutant of FirstFailing: a failing command does not leave the try block.
NeverStops(cmds, Fails) == Len(cmds) + 1

\* The position of the first command of cmds that is in Fails, Len(cmds) + 1 if none:
\* where a sequence of execSync calls inside one try block stops.
FirstFailing(cmds, Fails) ==
    LET bad == {i \in 1..Len(cmds) : cmds[i] \in Fails}
    IN IF bad = {} THEN Len(cmds) + 1
       ELSE CHOOSE i \in bad : \A j \in bad : i <= j

Prefix(s, n) == [i \in 1..(IF n < Len(s) THEN n ELSE Len(s)) |-> s[i]]

\* -------------------------------------------------------------- working tree

Main == [kind |-> "main", n |-> 0]
PrBranch(prNumber) == [kind |-> "pr", n |-> prNumber]
RefactorBranch(prNumber) == [kind |-> "refactor", n |-> prNumber]

BranchNames == {Main} \cup {PrBranch(u) : u \in Units} \cup {RefactorBranch(u) : u \in Units}

\* The external commands of PRMonitor.runTests, in the order of the try block.
RunTestsBody == <<"fetch", "checkoutPr", "install", "lint", "build", "tsc">>
RunTestsCmds == {RunTestsBody[i] : i \in 1..Len(RunTestsBody)} \cup {"checkoutMain"}
RunTestsFailures == {F \in SUBSET RunTestsCmds : Cardinality(F) <= MaxFailures}

\* finally { try { git checkout main } catch { log } }: a failing checkout is
\* logged and the branch stays what it was.
RestoreBaseline(br, Fails) == IF "checkoutMain" \in Fails THEN br ELSE Main

\* PRMonitor.runTests(prNumber): Fails are the commands that exit non-zero.
\* The lint failure is caught inside the try block; any other failure leaves the
\* try block at once; the finally block runs on every path.
RunTests(prNumber, br, Fails) ==
    LET stop == FirstFailing(RunTestsBody, Fails \ {"lint"})
        ok == stop = Len(RunTestsBody) + 1
        inTry == IF stop > 2 THEN PrBranch(prNumber) ELSE br
    IN [ success |-> ok,
         errors |-> IF ok THEN <<>> ELSE <<RunTestsBody[stop]>>,
         ran |-> Append(Prefix(RunTestsBody, stop), "checkoutMain"),
         branch |-> RestoreBaseline(inTry, Fails) ]

\* The external commands of RefactorAnalyzer.generateRefactoringPR after the diff gate.
RefactorTail == <<"add", "commit", "push", "create">>
FixTools == {"eslintFix", "prettier"}
RefactorCmds == {"checkoutB", "diff", "checkoutMain"} \cup FixTools
                    \cup {RefactorTail[i] : i \in 1..Len(RefactorTail)}
RefactorFailures == {F \in SUBSET RefactorCmds : Cardinality(F) <= MaxFailures}

\* The mutant of ApplyAutomaticFixes: the failure of a tool is not caught.
ApplyAutomaticFixesThrows(writes, Fails) ==
    LET tools == <<"eslintFix", "prettier">>
        stop == FirstFailing(tools, Fails)
    IN [ ran |-> Prefix(tools, stop),
         modified |-> \E i \in 1..Len(tools) : i <= stop /\ tools[i] \in writes,
         threw |-> stop <= Len(tools) ]

\* RefactorAnalyzer.applyAutomaticFixes: the lint auto-fix, then the formatter, each
\* in its own try/catch that logs the failure. writes are the tools that modify a
\* source file (a tool can write and still exit non-zero).
ApplyAutomaticFixes(writes, Fails) ==
    [ ran |-> <<"eslintFix", "prettier">>, modified |-> writes # {}, threw |-> FALSE ]

\* The mutant of BranchCreated: the steps go on after a failed branch creation.
BranchCreatedAnyway(prNumber, brs, Fails) == TRUE

\* execSync(`git checkout -b ${branchName}`): the command exits non-zero when it is
\* made to fail and when a branch of that name exists.
BranchCreated(prNumber, brs, Fails) == "checkoutB" \notin Fails /\ prNumber \notin brs

\* The mutant of DiffFindsChanges: no early return on an unchanged tree.
DiffGateOpen(modified, Fails) == TRUE

\* try { execSync('git diff --exit-code'); return } catch { continue }: the workflow
\* goes on when the command exits non-zero, which it does on a modified tree.
DiffFindsChanges(modified, Fails) == modified \/ "diff" \in Fails

\* RefactorAnalyzer.generateRefactoringPR for this.prNumber with nSuggestions
\* suggestions, on a working tree at branch br with local refactoring branches brs.
\* git checkout -b fails when the branch exists; git diff --exit-code exits 0 on an
\* unchanged tree (return) and non-zero otherwise (continue).
\* uncommitted: the fix tools modified the tree and no commit took the changes.
GenerateRefactoringPR(prNumber, nSuggestions, br, brs, Fails, writes) ==
    LET made == BranchCreated(prNumber, brs, Fails)
        fixes == ApplyAutomaticFixes(writes, Fails)
        changes == ~fixes.threw /\ DiffFindsChanges(fixes.modified, Fails)
        stop == FirstFailing(RefactorTail, Fails)
        onBranch == IF made THEN RefactorBranch(prNumber) ELSE br
        body == IF ~made THEN <<"checkoutB">>
                ELSE IF fixes.threw THEN <<"checkoutB">> \o fixes.ran
                ELSE <<"checkoutB">> \o fixes.ran \o <<"diff">>
                       \o (IF changes THEN Prefix(RefactorTail, stop) ELSE <<>>)
    IN IF nSuggestions = 0
       THEN [ ran |-> <<>>, branch |-> br, branches |-> brs, uncommitted |-> FALSE,
              opened |-> FALSE, made |-> FALSE, modified |-> FALSE ]
       ELSE [ ran |-> Append(body, "checkoutMain"),
              branch |-> RestoreBaseline(onBranch, Fails),
              branches |-> IF made THEN brs \cup {prNumber} ELSE brs,
              uncommitted |-> made /\ fixes.modified /\ ~(changes /\ stop > 2),
              opened |-> made /\ changes /\ stop = Len(RefactorTail) + 1,
              made |-> made,
              modified |-> made /\ fixes.modified ]

\* ---------------------------------------------------------------- detector

\* The lookback of a missing checkpoint, 24 * 60 * 60 * 1000 ms, in clock units (hours).
Lookback == 24
\* The page size of the remote list call: pulls.list passes no per_page and requests
\* one page, and the remote's default page holds 30 units.
PerPage == 30

\* The checkpoint file: absent, an ISO-8601 timestamp of instant t, or other text.
NoFile == [kind |-> "absent", t |-> 0]
IsoText(t) == [kind |-> "iso", t |-> t]
Garbage == [kind |-> "garbage", t |-> 0]

\* new Date(text): the instant an ISO-8601 text names, NaN for any other text.
DateOf(text) == [nan |-> text.kind # "iso", t |-> text.t]

\* a > b on two Dates: false as soon as one side is NaN.
DateGreater(a, b) == ~a.nan /\ ~b.nan /\ a.t > b.t

\* The mutant of GetLastCheckedTime: no default boundary.
GetLastCheckedTimeNoDefault(file, clock, readFails) == file

\* PRMonitor.getLastCheckedTime: the trimmed file content when the file exists and
\* can be read, else the ISO text of now minus 24 hours.
GetLastCheckedTime(file, clock, readFails) ==
    IF file.kind # "absent" /\ ~readFails THEN file ELSE IsoText(clock - Lookback)

\* sort: 'created', direction: 'desc' (the later number first among equal times).
Newer(cr, u, v) == cr[u] > cr[v] \/ (cr[u] = cr[v] /\ u > v)

RECURSIVE SortDesc(_, _)
SortDesc(cr, S) ==
    IF S = {} THEN <<>>
    ELSE LET top == CHOOSE u \in S : \A v \in S \ {u} : Newer(cr, u, v)
         IN <<top>> \o SortDesc(cr, S \ {top})

\* octokit.pulls.list({state: 'open', sort: 'created', direction: 'desc'}): the first
\* page of the open units.
PullsList(cr) == Prefix(SortDesc(cr, DOMAIN cr), PerPage)

\* pullRequests.filter(pr => new Date(pr.created_at) > new Date(lastChecked))
FilterNew(cr, page, lastChecked) ==
    SelectSeq(page, LAMBDA u : DateGreater(DateOf(IsoText(cr[u])), DateOf(lastChecked)))

\* PRMonitor.getNewPullRequests once lastChecked is read: an error of the list call
\* is caught and gives [].
NewPullRequestsSince(cr, lastChecked, listFails) ==
    IF listFails THEN <<>> ELSE FilterNew(cr, PullsList(cr), lastChecked)

\* PRMonitor.getNewPullRequests.
GetNewPullRequests(cr, file, clock, readFails, listFails) ==
    NewPullRequestsSince(cr, GetLastCheckedTime(file, clock, readFails), listFails)

Range(s) == {s[i] : i \in 1..Len(s)}

\* ------------------------------------------------------------- test runner

\* The checks TestRunner.runAllTests declares, in order, with their critical flag.
Tests == << [name |-> "Build Test", critical |-> TRUE],
            [name |-> "TypeScript Check", critical |-> TRUE],
            [name |-> "Linting", critical |-> FALSE],
            [name |-> "Dependency Security", critical |-> FALSE],
            [name |-> "Code Quality", critical |-> FALSE],
            [name |-> "Performance", critical |-> FALSE],
            [name |-> "Security Scan", critical |-> FALSE],
            [name |-> "Accessibility", critical |-> FALSE] >>

\* this.results of a new TestRunner.
NoResults == [passed |-> 0, failed |-> 0, skipped |-> 0, tests |-> <<>>]

RunTestKeepsGoing(res, test, passes) ==
    [ results |-> [res EXCEPT !.passed = IF passes THEN @ + 1 ELSE @,
                              !.failed = IF passes THEN @ ELSE @ + 1,
                              !.tests = Append(@, [name |-> test.name,
                                  status |-> IF passes THEN "passed" ELSE "failed",
                                  critical |-> test.critical])],
      threw |-> FALSE ]

\* The mutant of RunTest: the failure of any check is thrown, critical or not.
RunTestAbortsOnAny(res, test, passes) ==
    IF passes
    THEN [ results |-> [res EXCEPT !.passed = @ + 1,
                                   !.tests = Append(@, [name |-> test.name,
                                       status |-> "passed", critical |-> test.critical])],
           threw |-> FALSE ]
    ELSE [ results |-> [res EXCEPT !.failed = @ + 1], threw |-> TRUE ]

\* TestRunner.runTest(testName, testFunction, critical): passes tells whether
\* testFunction resolves. A failing critical check counts as failed and throws
\* before its result is pushed.
RunTest(res, test, passes) ==
    IF passes
    THEN [ results |-> [res EXCEPT !.passed = @ + 1,
                                   !.tests = Append(@, [name |-> test.name,
                                       status |-> "passed", critical |-> test.critical])],
           threw |-> FALSE ]
    ELSE IF test.critical
    THEN [ results |-> [res EXCEPT !.failed = @ + 1], threw |-> TRUE ]
    ELSE [ results |-> [res EXCEPT !.failed = @ + 1,
                                   !.tests = Append(@, [name |-> test.name,
                                       status |-> "failed", critical |-> test.critical])],
           threw |-> FALSE ]

\* TestRunner.generateReport: the summary of the report artifact and the returned flag.
GenerateReport(res) ==
    [ total |-> res.passed + res.failed + res.skipped,
      passed |-> res.passed, failed |-> res.failed, skipped |-> res.skipped,
      tests |-> res.tests,
      ok |-> res.failed = 0 ]

\* main: process.exit(success ? 0 : 1) with success = (results.failed === 0).
ExitStatus(res) == IF res.failed = 0 THEN 0 ELSE 1

\* ------------------------------------------------------------ orchestrator

\* The thresholds of the remediation predicate of processPullRequest.
FilesThreshold == 5
AdditionsThreshold == 100

\* The file lists pulls.listFiles can return: their length and the sum of their
\* additions.
FileShapes == { [totalFiles |-> 5, additions |-> 100],
                [totalFiles |-> 6, additions |-> 100],
                [totalFiles |-> 5, additions |-> 101] }

NoAnalysis == [null |-> TRUE, totalFiles |-> 0, additions |-> 0]

\* PRMonitor.analyzePRChanges: null when the listFiles call fails.
AnalyzePRChanges(shape, listFilesFails) ==
    IF listFilesFails THEN NoAnalysis
    ELSE [null |-> FALSE, totalFiles |-> shape.totalFiles, additions |-> shape.additions]

\* The mutant of NeedsRefactoring: the predicate is not consulted.
NeedsRefactoringAlways(analysis) == TRUE

\* if (analysis && (analysis.totalFiles > 5 || analysis.additions > 100))
NeedsRefactoring(analysis) ==
    /\ ~analysis.null
    /\ (analysis.totalFiles > FilesThreshold \/ analysis.additions > AdditionsThreshold)

NoTest == [success |-> FALSE, errors |-> <<>>]

\* No report: createComment was not called.
NoComment == [kind |-> "none", totalFiles |-> 0, additions |-> 0, errors |-> <<>>,
              paths |-> {}]

\* The mutant of Report: the pass report whatever the test results.
ReportAlwaysPass(analysis, test) ==
    [NoComment EXCEPT !.kind = "pass", !.totalFiles = analysis.totalFiles,
                      !.additions = analysis.additions]

\* The body of the comment processPullRequest posts: on success the counts of the
\* analysis, on failure the list testResults.errors. Neither template interpolates
\* analysis.criticalFiles, so the body names no path.
Report(analysis, test) ==
    IF test.success
    THEN [NoComment EXCEPT !.kind = "pass", !.totalFiles = analysis.totalFiles,
                           !.additions = analysis.additions]
    ELSE [NoComment EXCEPT !.kind = "fail", !.errors = test.errors]

\* --------------------------------------------------------------- variables

VARIABLES
    branch,     \* the active branch of the working tree
    branches,   \* the pull requests whose refactoring branch exists locally
    wf,         \* the last workflow that returned, and what it did
    now,        \* the clock: the instant of the next timestamp taken
    created,    \* the remote: creation time of every open unit
    checkpointFile, \* the content of .last-pr-check
    detected,   \* the detector model: the last result of getNewPullRequests
    results,    \* TestRunner.results
    executed,   \* the checks whose test function was invoked, with their outcome
    report,     \* what generateReport wrote and returned
    runner,     \* the position of the test runner, and its exit status
    daemon,     \* MonitorDaemon: isRunning, whether the cron task is started, whether
                \* a shutdown signal was received, whether the process has exited
    cycles,     \* every PRMonitor.start invocation: where it is and what it holds
    processed,  \* the units handed to processPullRequest so far
    running,    \* the processPullRequest invocation that holds the thread, 0 if none
    steps,      \* every processPullRequest invocation, statement by statement
    posting,    \* the report model: a file list, test results, and the report made
    scan,       \* the scanner model: the scanner that ran, its input, its suggestions
    analyzer,   \* the analyzer model: the position of analyzeCodeQuality
    gate        \* the configuration model: this.config of the daemon, and what the
                \* processing of one unit under it did

gvars == <<branch, branches>>
rvars == <<now, created, checkpointFile>>
dvars == <<daemon, cycles, processed>>
hvars == <<results, executed, report, runner>>
svars == <<running, steps>>
xvars == <<posting, scan, analyzer, gate>>
vars == <<branch, branches, wf, now, created, checkpointFile, detected,
          results, executed, report, runner, daemon, cycles, processed, running, steps,
          posting, scan, analyzer, gate>>

NoWorkflow == [op |-> "none", pr |-> 0, fails |-> {}, ran |-> <<>>, success |-> FALSE,
               opened |-> FALSE, uncommitted |-> FALSE, made |-> FALSE,
               modified |-> FALSE]

InitTree == branch = Main /\ branches = {}

NoDetection == [done |-> FALSE, listed |-> FALSE, readFailed |-> FALSE,
                lastChecked |-> NoFile, prs |-> <<>>]

NoReport == [total |-> 0, passed |-> 0, failed |-> 0, skipped |-> 0,
             tests |-> <<>>, ok |-> FALSE]

InitRunner ==
    /\ results = NoResults /\ executed = <<>> /\ report = NoReport
    /\ runner = [pc |-> "loop", next |-> 1, exit |-> 0]

InitRemote == now = 0 /\ created = <<>> /\ checkpointFile = NoFile

\* A PRMonitor.start invocation that has not begun.
\* lastChecked is held while the list call is awaited only; listed tells whether
\* the list call succeeded.
NoCycle == [pc |-> "idle", lastChecked |-> NoFile, listed |-> FALSE, prs |-> <<>>,
            idx |-> 0, analysis |-> NoAnalysis, test |-> NoTest]

\* A processPullRequest invocation that has not begun. ran, pos and fails are held
\* while a branch-switching workflow runs: its commands, how many have run, and the
\* ones that exit non-zero.
\* report is the body sent with issues.createComment, posted the number of reports
\* the remote unit received.
NoStep == [pc |-> "idle", pr |-> 0, analysis |-> NoAnalysis, success |-> FALSE,
           errors |-> <<>>, ran |-> <<>>, pos |-> 0, fails |-> {},
           report |-> NoComment, posted |-> 0]

InitSteps == running = 0 /\ steps = [c \in 1..MaxCycles |-> NoStep]

\* No report made, no scanner run, analyzeCodeQuality not called.
NoPosting == [done |-> FALSE, files |-> <<>>, analysis |-> NoAnalysis,
              criticalFiles |-> <<>>, test |-> NoTest, report |-> NoComment]
NoScan == [kind |-> "none", input |-> <<>>, out |-> <<>>]
NoAnalyzer == [pc |-> "idle", next |-> 1, ran |-> <<>>, threw |-> 0]

\* defaultConfig of MonitorDaemon.loadConfig, as far as the flags go.
DefaultConfig == [enableAutoRefactoring |-> TRUE, enableAutoTesting |-> TRUE]

\* The daemon not constructed, no unit processed.
NoGate == [pc |-> "new", config |-> DefaultConfig, harnessRan |-> FALSE,
           success |-> FALSE, launched |-> FALSE, opened |-> FALSE]

InitAnalyzer ==
    posting = NoPosting /\ scan = NoScan /\ analyzer = NoAnalyzer /\ gate = NoGate

InitDaemon ==
    /\ InitSteps
    /\ InitAnalyzer
    /\ daemon = [isRunning |-> FALSE, scheduled |-> FALSE, signalled |-> FALSE,
                 exited |-> FALSE]
    /\ cycles = [c \in 1..MaxCycles |-> NoCycle]
    /\ processed = {}

\* ------------------------------------------------------------ SpecWorkflow

WfRunTests ==
    \E u \in Units, F \in RunTestsFailures :
        LET r == RunTests(u, branch, F)
        IN /\ branch' = r.branch
           /\ wf' = [NoWorkflow EXCEPT !.op = "runTests", !.pr = u, !.fails = F,
                                       !.ran = r.ran, !.success = r.success]
           /\ UNCHANGED <<branches, rvars, detected, hvars, dvars, svars, xvars>>

WfRefactor ==
    \E u \in Units, n \in 0..1, F \in RefactorFailures, w \in SUBSET FixTools :
        LET r == GenerateRefactoringPR(u, n, branch, branches, F, w)
        IN /\ branch' = r.branch
           /\ branches' = r.branches
           /\ wf' = [op |-> "generateRefactoringPR", pr |-> u, fails |-> F,
                     ran |-> r.ran, success |-> r.opened, opened |-> r.opened,
                     uncommitted |-> r.uncommitted, made |-> r.made,
                     modified |-> r.modified]
           /\ UNCHANGED <<rvars, detected, hvars, dvars, svars, xvars>>

InitWorkflow ==
    InitTree /\ wf = NoWorkflow /\ InitRemote /\ detected = NoDetection /\ InitRunner
    /\ InitDaemon

NextWorkflow == WfRunTests \/ WfRefactor

SpecWorkflow == InitWorkflow /\ [][NextWorkflow]_vars

\* (C2) After runTests returns, whatever step failed, the working tree is on the
\* baseline branch, and the restoring checkout was attempted.
C2_RunTestsLeavesBaseline ==
    wf.op = "runTests" =>
        /\ branch = Main
        /\ wf.ran[Len(wf.ran)] = "checkoutMain"

\* (C1) After generateRefactoringPR returns, whatever the outcome, the working tree
\* is on the baseline branch.
C1_RefactoringLeavesBaseline ==
    wf.op = "generateRefactoringPR" => branch = Main

\* (C37) After generateRefactoringPR returns with the working tree on the baseline
\* branch, the tree holds no uncommitted modification made by the fix tools.
C37_BaselineTreeIsClean ==
    (wf.op = "generateRefactoringPR" /\ branch = Main) => ~wf.uncommitted

\* The steps of the remediation workflow in the order of its state machine.
RefactorOrder == <<"checkoutB", "eslintFix", "prettier", "diff", "add", "commit", "push",
                   "create", "checkoutMain">>
Rank(cmd) == CHOOSE i \in 1..Len(RefactorOrder) : RefactorOrder[i] = cmd

\* Command cmd ran and exited zero in the last workflow.
Succeeded(cmd) == cmd \in Range(wf.ran) /\ cmd \notin wf.fails

\* (C17) The steps of one generateRefactoringPR invocation follow the order of the
\* state machine, none twice: a remote unit is opened only after a successful push,
\* a push happens only after a successful commit, a commit only after the diff check
\* found changes, the diff check only after the fix tools ran, the fix tools only
\* after the branch was created.
C17_RemediationOrder ==
    (wf.op = "generateRefactoringPR" /\ wf.ran # <<>>) =>
        /\ \A i, j \in 1..Len(wf.ran) : i < j => Rank(wf.ran[i]) < Rank(wf.ran[j])
        /\ wf.ran[1] = "checkoutB"
        /\ "create" \in Range(wf.ran) => Succeeded("push")
        /\ "push" \in Range(wf.ran) => Succeeded("commit")
        /\ "commit" \in Range(wf.ran) => Succeeded("add")
        /\ "add" \in Range(wf.ran) =>
               "diff" \in Range(wf.ran) /\ DiffFindsChanges(wf.modified, wf.fails)
        /\ "diff" \in Range(wf.ran) => {"eslintFix", "prettier"} \subseteq Range(wf.ran)
        /\ "eslintFix" \in Range(wf.ran) => Succeeded("checkoutB") /\ wf.made
        /\ wf.opened => Succeeded("create")

\* Every step succeeded and the remote unit was opened.
C17_Witness ==
    /\ wf.op = "generateRefactoringPR" /\ wf.opened /\ wf.fails = {}
    /\ wf.ran = RefactorOrder

\* (C18) When the diff check reports an unchanged working tree, the workflow makes
\* no commit, no push, opens no remote unit, and goes directly to the rollback.
C18_UnchangedTreeGoesToRollback ==
    (wf.op = "generateRefactoringPR" /\ wf.made /\ ~wf.modified /\ "diff" \notin wf.fails) =>
        /\ wf.ran = <<"checkoutB", "eslintFix", "prettier", "diff", "checkoutMain">>
        /\ ~wf.opened

\* The branch was created, the fix tools ran without a change, the diff check
\* exited zero.
C18_Witness ==
    /\ wf.op = "generateRefactoringPR" /\ wf.made /\ ~wf.modified
    /\ "diff" \notin wf.fails
    /\ "diff" \in Range(wf.ran)

\* (C19) When branch creation fails, no fix tool is invoked, nothing is committed or
\* pushed, no remote unit is opened: the only following step is the rollback.
C19_FailedBranchCreationGoesToRollback ==
    (wf.op = "generateRefactoringPR" /\ wf.ran # <<>>
         /\ ("checkoutB" \in wf.fails \/ ~wf.made)) =>
        /\ wf.ran = <<"checkoutB", "checkoutMain">>
        /\ ~wf.opened

\* The branch creation command was made to fail.
C19_Witness ==
    /\ wf.op = "generateRefactoringPR" /\ "checkoutB" \in wf.fails
    /\ wf.ran # <<>> /\ wf.ran[1] = "checkoutB"

\* (C21) In the fix step the failure of the lint auto-fix or of the formatter is not
\* fatal: both tools are invoked, in order, and the workflow goes on to the diff
\* check.
C21_FixToolFailureIsNotFatal ==
    (wf.op = "generateRefactoringPR" /\ wf.made /\ wf.fails \cap FixTools # {}) =>
        \E i \in 1..Len(wf.ran) :
            /\ i + 2 <= Len(wf.ran)
            /\ wf.ran[i] = "eslintFix"
            /\ wf.ran[i + 1] = "prettier"
            /\ wf.ran[i + 2] = "diff"

\* The lint auto-fix failed in a workflow that created its branch, and the workflow
\* reached the diff check.
C21_Witness ==
    /\ wf.op = "generateRefactoringPR" /\ wf.made
    /\ "eslintFix" \in wf.fails
    /\ "diff" \in Range(wf.ran)

\* (C20) Every invocation creates a fresh branch: without a failure of the command
\* itself, branch creation succeeds, also in a second invocation for the same unit.
C20_BranchNameIsFresh ==
    (wf.op = "generateRefactoringPR" /\ wf.ran # <<>> /\ "checkoutB" \notin wf.fails) =>
        wf.made

\* -------------------------------------------------------------- SpecDetect

Strides == {1, 2, 8}

InitDetect ==
    /\ InitTree /\ wf = NoWorkflow /\ detected = NoDetection /\ InitRunner /\ InitDaemon
    /\ now = MaxOpen + MaxCheckpoint + 1
    /\ \E n \in 0..MaxOpen, k \in Strides :
           created = [u \in 1..n |-> ((u - 1) \div k) + 1]
    /\ checkpointFile \in {NoFile, Garbage} \cup {IsoText(T) : T \in 0..MaxCheckpoint}

Detect ==
    /\ ~detected.done
    /\ \E listFails \in BOOLEAN, readFails \in BOOLEAN :
           detected' = [done |-> TRUE, listed |-> ~listFails, readFailed |-> readFails,
                        lastChecked |-> GetLastCheckedTime(checkpointFile, now, readFails),
                        prs |-> GetNewPullRequests(created, checkpointFile, now,
                                                   readFails, listFails)]
    /\ UNCHANGED <<gvars, wf, rvars, hvars, dvars, svars, xvars>>

NextDetect == Detect

SpecDetect == InitDetect /\ [][NextDetect]_vars

\* (C3) For every checkpoint T and every open unit created at t, a detection whose
\* list call succeeds returns the unit iff t > T, whatever the number of open units.
C3_ReturnedIffNewer ==
    (detected.listed /\ checkpointFile.kind = "iso" /\ ~detected.readFailed) =>
        \A u \in DOMAIN created :
            u \in Range(detected.prs) <=> created[u] > checkpointFile.t

\* (C25) When the checkpoint file is absent or reading it raises an error, the
\* detector takes now minus 24 hours as the boundary and the detection goes on: it
\* returns the listed units created after that boundary, and no other.
C25_DefaultLookback ==
    (detected.done /\ (checkpointFile.kind = "absent" \/ detected.readFailed)) =>
        /\ detected.lastChecked = IsoText(now - Lookback)
        /\ detected.listed =>
               \A u \in DOMAIN created :
                   u \in Range(detected.prs) <=>
                       u \in Range(PullsList(created)) /\ created[u] > now - Lookback

\* Reading the checkpoint file raised an error and the detection returned the units
\* of the lookback window, leaving out an older one.
C25_Witness ==
    /\ detected.done /\ detected.readFailed /\ detected.listed
    /\ detected.prs # <<>>
    /\ \E u \in DOMAIN created : u \notin Range(detected.prs)

\* (C39) When the checkpoint file exists and its content is empty or is not a
\* timestamp, the detection returns the listed units of the default lookback window:
\* those created after now minus 24 hours.
C39_UnreadableContentFallsBack ==
    (detected.done /\ detected.listed /\ ~detected.readFailed
        /\ checkpointFile.kind = "garbage") =>
        \A u \in DOMAIN created :
            (u \in Range(PullsList(created)) /\ created[u] > now - Lookback) =>
                u \in Range(detected.prs)

\* ------------------------------------------------------------- SpecHarness

InitHarness ==
    InitTree /\ wf = NoWorkflow /\ InitRemote /\ detected = NoDetection /\ InitRunner
    /\ InitDaemon

\* One iteration of the for loop of runAllTests: runTest, and break when it throws.
RunAllTestsStep ==
    /\ runner.pc = "loop"
    /\ runner.next <= Len(Tests)
    /\ \E passes \in BOOLEAN :
           LET r == RunTest(results, Tests[runner.next], passes)
           IN /\ results' = r.results
              /\ executed' = Append(executed, [test |-> runner.next, passed |-> passes])
              /\ runner' = [runner EXCEPT
                     !.pc = IF r.threw \/ runner.next = Len(Tests) THEN "report" ELSE "loop",
                     !.next = @ + 1]
    /\ UNCHANGED <<gvars, wf, rvars, detected, report, dvars, svars, xvars>>

\* The end of runAllTests: generateReport.
RunAllTestsReport ==
    /\ runner.pc = "report"
    /\ report' = GenerateReport(results)
    /\ runner' = [runner EXCEPT !.pc = "reported"]
    /\ UNCHANGED <<gvars, wf, rvars, detected, results, executed, dvars, svars, xvars>>

\* main: runAllTests().then(... process.exit ...).
RunnerExit ==
    /\ runner.pc = "reported"
    /\ runner' = [runner EXCEPT !.pc = "exited", !.exit = ExitStatus(results)]
    /\ UNCHANGED <<gvars, wf, rvars, detected, results, executed, report, dvars, svars, xvars>>

NextHarness == RunAllTestsStep \/ RunAllTestsReport \/ RunnerExit

SpecHarness == InitHarness /\ [][NextHarness]_vars

CriticalFailed(i) == Tests[executed[i].test].critical /\ ~executed[i].passed

\* (C7) When a critical check fails, no check declared after it is executed, and the
\* outcome of the run is failed: generateReport returns false and the exit status is
\* non-zero.
C7_CriticalFailureAborts ==
    \A i \in 1..Len(executed) :
        CriticalFailed(i) =>
            /\ i = Len(executed)
            /\ runner.pc # "loop"
            /\ runner.pc \in {"reported", "exited"} => ~report.ok
            /\ runner.pc = "exited" => runner.exit # 0

C7_Witness ==
    /\ runner.pc = "exited"
    /\ Len(executed) = 2
    /\ executed[1].passed
    /\ CriticalFailed(2)
    /\ runner.exit = 1

\* (C34) The checks are executed in declared order, each at most once: the executed
\* checks are a prefix of the declared list; the prefix ends at the first failing
\* critical check or at the end of the list, and a failing advisory check does not
\* end it.
C34_ExecutedIsPrefix ==
    LET n == Len(executed)
    IN /\ \A i \in 1..n : executed[i].test = i
       /\ \A i \in 1..n : CriticalFailed(i) => i = n
       /\ runner.pc # "loop" => (n = Len(Tests) \/ CriticalFailed(n))
       /\ runner.pc = "loop" => (n < Len(Tests) /\ (n > 0 => ~CriticalFailed(n)))

\* (C34) A run in which an advisory check failed went on to the end of the list.
C34_Witness ==
    /\ runner.pc = "exited"
    /\ Len(executed) = Len(Tests)
    /\ \E i \in 1..Len(executed) : ~executed[i].passed /\ ~Tests[i].critical

\* (C8) After the run, the recorded result list holds exactly one CheckResult per
\* executed check, a failing critical check included, and its length is the summary
\* total of the report artifact.
C8_OneResultPerExecutedCheck ==
    runner.pc = "exited" =>
        /\ Len(results.tests) = Len(executed)
        /\ Len(report.tests) = report.total

\* (C9) When every failing check of a run is advisory, the overall status of the run
\* is passed, and each failed advisory check is recorded with status failed.
C9_AdvisoryFailuresPass ==
    (runner.pc = "exited" /\ \A i \in 1..Len(executed) : ~CriticalFailed(i)) =>
        /\ report.ok
        /\ runner.exit = 0
        /\ \A i \in 1..Len(executed) :
               ~executed[i].passed =>
                   \E k \in 1..Len(results.tests) :
                       /\ results.tests[k].name = Tests[executed[i].test].name
                       /\ results.tests[k].status = "failed"

\* -------------------------------------------------------------------- Spec
\* The daemon. Node runs one callback at a time and execSync blocks the process, so
\* a cycle is interleaved with other callbacks only where it awaits a remote call:
\* pulls.list, pulls.listFiles and issues.createComment. Each action below is one
\* such callback, from the response it resumes on to the next request it sends.

InFlight(c) == cycles[c].pc \in {"list", "files", "comment"}
FreeCycles == {c \in 1..MaxCycles : ~InFlight(c)}
NextCycle == CHOOSE c \in FreeCycles : \A d \in FreeCycles : c <= d

\* What is kept of a cycle once it has left PRMonitor.start: how it left, and
\* whether its list call had succeeded.
Closed(cy, pc) == [NoCycle EXCEPT !.pc = pc, !.listed = cy.listed]

\* PRMonitor.start up to its first remote call: getNewPullRequests reads the
\* checkpoint and sends the list request.
BeginCycle(c) ==
    cycles' = [cycles EXCEPT ![c] =
        [NoCycle EXCEPT !.pc = "list",
                        !.lastChecked = GetLastCheckedTime(checkpointFile, now, FALSE)]]

\* The mutant of UpdateLastCheckedTime: the checkpoint is written with a time taken
\* earlier in the cycle.
UpdateWithStaleTime ==
    /\ now < MaxTime
    /\ checkpointFile' = IsoText(now - 2)
    /\ now' = now + 1

\* PRMonitor.updateLastCheckedTime: the checkpoint becomes the time of the write.
UpdateLastCheckedTime ==
    /\ now < MaxTime
    /\ checkpointFile' = IsoText(now)
    /\ now' = now + 1

\* MonitorDaemon.start: schedule and start the cron task, then the initial check.
DaemonStart ==
    /\ ~daemon.isRunning /\ ~daemon.exited
    /\ daemon' = [daemon EXCEPT !.isRunning = TRUE, !.scheduled = TRUE]
    /\ BeginCycle(NextCycle)
    /\ UNCHANGED <<gvars, wf, rvars, detected, hvars, processed, svars, xvars>>

\* The callback of cron.schedule: a tick of the schedule starts a cycle.
CronTick ==
    /\ daemon.scheduled /\ ~daemon.exited
    /\ FreeCycles # {}
    /\ BeginCycle(NextCycle)
    /\ UNCHANGED <<gvars, wf, rvars, detected, hvars, daemon, processed, svars, xvars>>

\* pulls.list answers: filter; with no new unit the cycle writes the checkpoint and
\* ends, else processPullRequest starts on the first unit and sends listFiles.
ListReturn(c) ==
    /\ cycles[c].pc = "list"
    /\ \E listFails \in BOOLEAN :
           LET prs == NewPullRequestsSince(created, cycles[c].lastChecked, listFails)
           IN IF prs = <<>>
              THEN /\ cycles' = [cycles EXCEPT ![c] =
                          Closed([@ EXCEPT !.listed = ~listFails], "done")]
                   /\ UpdateLastCheckedTime
                   /\ UNCHANGED <<created, processed>>
              ELSE /\ cycles' = [cycles EXCEPT ![c] =
                          [@ EXCEPT !.pc = "files", !.lastChecked = NoFile,
                                    !.listed = TRUE, !.prs = prs, !.idx = 1]]
                   /\ processed' = processed \cup {prs[1]}
                   /\ UNCHANGED rvars
    /\ UNCHANGED <<gvars, wf, detected, hvars, daemon, svars, xvars>>

\* What runTests can return for unit u on the working tree as it is.
RunTestsOutcomes(u) == {RunTests(u, branch, F) : F \in RunTestsFailures}

\* pulls.listFiles answers: the analysis, then runTests (synchronous), then the
\* report is sent with issues.createComment.
FilesReturn(c) ==
    /\ cycles[c].pc = "files"
    /\ \E shape \in FileShapes, listFilesFails \in BOOLEAN,
          r \in RunTestsOutcomes(cycles[c].prs[cycles[c].idx]) :
           /\ branch' = r.branch
           /\ cycles' = [cycles EXCEPT ![c] =
                  [@ EXCEPT !.pc = "comment",
                            !.analysis = AnalyzePRChanges(shape, listFilesFails),
                            !.test = [success |-> r.success, errors |-> r.errors]]]
    /\ UNCHANGED <<branches, wf, rvars, detected, hvars, daemon, processed, svars, xvars>>

\* PRMonitor.triggerRefactoring: the analyzer process runs to its end; nSuggestions
\* is what analyzeCodeQuality finds.
TriggerRefactoring(u, nSuggestions, Fails, writes) ==
    GenerateRefactoringPR(u, nSuggestions, branch, branches, Fails, writes)

TriggerRefactoringOutcomes(u) ==
    { TriggerRefactoring(u, n, F, w) :
          n \in 0..1, F \in RefactorFailures, w \in SUBSET FixTools }

\* The rest of PRMonitor.start after the unit at idx: the next unit, or the
\* checkpoint and the end of the cycle.
Advance(c) ==
    IF cycles[c].idx < Len(cycles[c].prs)
    THEN /\ cycles' = [cycles EXCEPT ![c] =
                [@ EXCEPT !.pc = "files", !.idx = @ + 1,
                          !.analysis = NoAnalysis, !.test = NoTest]]
         /\ processed' = processed \cup {cycles[c].prs[cycles[c].idx + 1]}
         /\ UNCHANGED rvars
    ELSE /\ cycles' = [cycles EXCEPT ![c] = Closed(@, "done")]
         /\ UpdateLastCheckedTime
         /\ UNCHANGED <<created, processed>>

\* The mutant of CatchCycleError: the error of a cycle ends the process.
ExitOnCycleError(d) == [d EXCEPT !.isRunning = FALSE, !.scheduled = FALSE, !.exited = TRUE]

\* try { await this.monitor.start() } catch (error) { this.log(...) }, in the cron
\* callback and around the initial check: the error is logged, the daemon is as before.
CatchCycleError(d) == d

\* issues.createComment fails: the rejection leaves processPullRequest and the for
\* loop of PRMonitor.start, and is caught by the daemon's callback.
CommentFails(c) ==
    /\ cycles[c].pc = "comment"
    /\ cycles' = [cycles EXCEPT ![c] = Closed(@, "failed")]
    /\ daemon' = CatchCycleError(daemon)
    /\ UNCHANGED <<gvars, wf, rvars, detected, hvars, processed, svars, xvars>>

\* issues.createComment answers after passed tests, and the predicate holds: the
\* refactoring runs, then the cycle goes on.
CommentReturnRefactor(c) ==
    /\ cycles[c].pc = "comment"
    /\ cycles[c].test.success /\ NeedsRefactoring(cycles[c].analysis)
    /\ \E r \in TriggerRefactoringOutcomes(cycles[c].prs[cycles[c].idx]) :
           branch' = r.branch /\ branches' = r.branches
    /\ Advance(c)
    /\ UNCHANGED <<wf, detected, hvars, daemon, svars, xvars>>

\* issues.createComment answers and no refactoring is triggered.
CommentReturnPlain(c) ==
    /\ cycles[c].pc = "comment"
    /\ ~(cycles[c].test.success /\ NeedsRefactoring(cycles[c].analysis))
    /\ Advance(c)
    /\ UNCHANGED <<gvars, wf, detected, hvars, daemon, svars, xvars>>

\* The remote system opens a unit; its creation time is the time of the opening.
OpenUnit ==
    /\ Len(created) < MaxUnits
    /\ now < MaxTime
    /\ created' = Append(created, now)
    /\ now' = now + 1
    /\ UNCHANGED <<gvars, wf, checkpointFile, detected, hvars, dvars, svars, xvars>>

\* The mutant of Signal: a handler that only logs the signal, without task.stop()
\* and without process.exit(0).
SignalStopsNothing ==
    /\ daemon.isRunning /\ ~daemon.signalled
    /\ daemon' = [daemon EXCEPT !.signalled = TRUE]
    /\ UNCHANGED <<gvars, wf, rvars, detected, hvars, cycles, processed, svars, xvars>>

\* The handler of SIGINT and of SIGTERM: task.stop(), isRunning = false,
\* process.exit(0). The process ends at once, with every cycle that was suspended on
\* a remote call.
Signal ==
    /\ daemon.isRunning /\ ~daemon.exited
    /\ daemon' = [daemon EXCEPT !.isRunning = FALSE, !.scheduled = FALSE,
                                !.signalled = TRUE, !.exited = TRUE]
    /\ cycles' = [c \in 1..MaxCycles |->
                      IF InFlight(c) THEN Closed(cycles[c], "killed") ELSE cycles[c]]
    /\ UNCHANGED <<gvars, wf, rvars, detected, hvars, processed, svars, xvars>>

Init ==
    InitTree /\ wf = NoWorkflow /\ InitRemote /\ detected = NoDetection /\ InitRunner
    /\ InitDaemon

Next ==
    \/ DaemonStart
    \/ CronTick
    \/ \E c \in 1..MaxCycles :
           \/ ListReturn(c)
           \/ FilesReturn(c)
           \/ CommentFails(c)
           \/ CommentReturnRefactor(c)
           \/ CommentReturnPlain(c)
    \/ OpenUnit
    \/ Signal

Spec == Init /\ [][Next]_vars

\* A step in which cycle c leaves PRMonitor.start, normally or by an exception.
Ends(c) == InFlight(c) /\ cycles'[c].pc \in {"done", "failed"}

\* The units cycle c has detected and not yet handed to processPullRequest.
Pending(c) == {cycles[c].prs[i] : i \in (cycles[c].idx + 1)..Len(cycles[c].prs)}

\* Unit u lies at or before the checkpoint: no detection that reads this checkpoint
\* returns it.
Behind(u, file) == ~DateGreater(DateOf(IsoText(created[u])), DateOf(file))

\* (C4) At-least-once: when a cycle whose list call succeeded advances the
\* checkpoint, every open unit that was ahead of the old checkpoint has been handed
\* to processPullRequest or is still held by a cycle in flight. Any other such unit
\* now lies behind the checkpoint without having been processed: it was skipped.
C4_NoUnitSkipped ==
    [][\A c \in 1..MaxCycles :
           (Ends(c) /\ cycles'[c].pc = "done" /\ cycles'[c].listed) =>
               \A u \in 1..Len(created) :
                   \/ checkpointFile.kind = "iso" /\ Behind(u, checkpointFile)
                   \/ u \in processed'
                   \/ \E d \in 1..MaxCycles : InFlight(d)' /\ u \in Pending(d)']_vars

\* (C5) Per-unit isolation: when a cycle ends, normally or on a failure raised while
\* processing a unit, every unit of its detected sequence has been processed.
C5_LaterUnitsStillProcessed ==
    [][\A c \in 1..MaxCycles : Ends(c) => cycles[c].idx = Len(cycles[c].prs)]_vars

\* (C6) The checkpoint is written exactly in the steps that end a cycle: once per
\* cycle, after all the units the cycle detected were processed, and also at the
\* end of a cycle in which the processing of a unit failed.
C6_CheckpointOncePerCycle ==
    [][/\ \A c \in 1..MaxCycles :
              Ends(c) => /\ checkpointFile' = IsoText(now)
                         /\ cycles[c].idx = Len(cycles[c].prs)
       /\ checkpointFile' # checkpointFile => \E c \in 1..MaxCycles : Ends(c)]_vars

\* A step in which cycle c begins: PRMonitor.start is called.
Begins(c) == ~InFlight(c) /\ InFlight(c)'

\* (C12) A shutdown signal stops the schedule and does not interrupt a cycle in
\* flight: in the step that receives it, every cycle in flight stays as it is (and so
\* goes on to process its remaining units and write the checkpoint).
C12_SignalSparesCycleInFlight ==
    [][(~daemon.signalled /\ daemon'.signalled) =>
           /\ ~daemon'.scheduled
           /\ \A c \in 1..MaxCycles : InFlight(c) => cycles'[c] = cycles[c]]_vars

\* (C13) MonitorDaemon.start starts one cycle at once, each tick of the schedule
\* starts one cycle, nothing else starts a cycle, and no cycle is started once a
\* shutdown signal was received.
C13_CyclesStartAtStartupAndTicks ==
    [][/\ (~daemon.isRunning /\ daemon'.isRunning) =>
               Cardinality({c \in 1..MaxCycles : Begins(c)}) = 1
       /\ CronTick => Cardinality({c \in 1..MaxCycles : Begins(c)}) = 1
       /\ (\E c \in 1..MaxCycles : Begins(c)) =>
               /\ DaemonStart \/ CronTick
               /\ ~daemon.signalled]_vars

\* A signal arrived while the startup cycle and the cycle of a tick were in flight.
C13_Witness ==
    /\ daemon.signalled
    /\ Cardinality({c \in 1..MaxCycles : cycles[c].pc = "killed"}) = 2

\* (C14) An error thrown by a cycle is caught: the daemon is unchanged by the step,
\* it is still running with its schedule started and a tick can start a cycle; the
\* process exits only in a step that receives a shutdown signal.
C14_CycleErrorKeepsDaemon ==
    [][/\ \A c \in 1..MaxCycles :
              (InFlight(c) /\ cycles'[c].pc = "failed") =>
                  /\ daemon' = daemon
                  /\ daemon'.isRunning /\ daemon'.scheduled /\ ~daemon'.exited
                  /\ c \in FreeCycles'
       /\ (~daemon.exited /\ daemon'.exited) =>
              (~daemon.signalled /\ daemon'.signalled)]_vars

\* A cycle has failed and the daemon is running, its schedule started.
C14_Witness ==
    /\ \E c \in 1..MaxCycles : cycles[c].pc = "failed"
    /\ daemon.isRunning /\ daemon.scheduled /\ ~daemon.exited

\* (C15) A cycle whose list call fails does not advance the checkpoint, so that the
\* units it would have detected are returned by the next successful detection.
C15_FailedListKeepsCheckpoint ==
    [][\A c \in 1..MaxCycles :
           (cycles[c].pc = "list" /\ Ends(c) /\ ~cycles'[c].listed) =>
               checkpointFile' = checkpointFile]_vars

\* (C24) A step that advances the checkpoint leaves it at a time later than the one
\* before, and a detection run against the remote units as they are returns the
\* empty sequence.
C24_CheckpointMonotonic ==
    [][checkpointFile' # checkpointFile =>
           /\ checkpointFile'.kind = "iso"
           /\ checkpointFile.kind = "iso" => checkpointFile'.t > checkpointFile.t
           /\ NewPullRequestsSince(created', checkpointFile', FALSE) = <<>>]_vars

\* A cycle that processed a unit has advanced a checkpoint written by an earlier
\* cycle.
C24_Witness ==
    /\ checkpointFile.kind = "iso" /\ checkpointFile.t > 0
    /\ Len(created) >= 1 /\ processed # {}
    /\ \E c \in 1..MaxCycles : cycles[c].pc = "done" /\ cycles[c].listed

\* (C10) No two cycles overlap: at most one PRMonitor.start invocation is in flight.
C10_NoOverlappingCycles ==
    Cardinality({c \in 1..MaxCycles : InFlight(c)}) <= 1

\* ---------------------------------------------------------------- SpecQuiet
\* The daemon in the executions without a failing remote call and without a signal:
\* pulls.list and pulls.listFiles answer, issues.createComment answers, the process
\* is not ended. The commands of the harness and of the remediation may still fail.

\* The remote call cycle c resumes on in this step has answered.
Answered(c) ==
    /\ cycles'[c].pc \in {"done", "files"} => cycles'[c].listed
    /\ cycles'[c].pc = "comment" => ~cycles'[c].analysis.null

NextQuiet ==
    \/ DaemonStart
    \/ CronTick
    \/ \E c \in 1..MaxCycles :
           \/ ListReturn(c) /\ Answered(c)
           \/ FilesReturn(c) /\ Answered(c)
           \/ CommentReturnRefactor(c)
           \/ CommentReturnPlain(c)
    \/ OpenUnit

SpecQuiet == Init /\ [][NextQuiet]_vars

\* The unit that cycle c hands to processPullRequest in this step, if it hands one.
HandsOver(c, u) ==
    /\ cycles'[c].idx # cycles[c].idx \/ ~InFlight(c)
    /\ InFlight(c)'
    /\ cycles'[c].idx > 0
    /\ cycles'[c].prs[cycles'[c].idx] = u

\* (C38) Without a failing remote call and without a crash, a unit is handed to
\* processPullRequest, and so receives a report, at most once: a unit that a cycle
\* has processed is not processed again by that cycle or another one, wherever the
\* ticks of the schedule fall.
C38_NoUnitProcessedTwice ==
    [][\A c \in 1..MaxCycles : \A u \in 1..Len(created) :
           HandsOver(c, u) => u \notin processed]_vars

\* --------------------------------------------------------------- SpecSteps
\* processPullRequest statement by statement. A callback holds the thread from the
\* response it resumes on to its next await; execSync blocks the process, so the
\* commands of runTests and of triggerRefactoring run without the thread being
\* released in between.

\* Failures drawn for one workflow in this specification.
MaxStepFailures == 1

\* The mutant of HoldsThread: every command is awaited, the thread is released
\* between two commands of a workflow.
YieldsAtEachCommand(pc) == FALSE

\* Where the invocation keeps the thread after a statement: inside runTests and
\* inside triggerRefactoring every statement is an execSync call, none is awaited.
HoldsThread(pc) == pc \in {"runTests", "trigger"}

\* The invocation c can execute a statement: the thread is free or c holds it.
CanRun(c) == running = 0 \/ running = c

\* The effect of one external command on the working tree; ok tells whether it
\* exited zero.
BranchAfterCommand(cmd, ok, prNumber, br) ==
    IF ~ok THEN br
    ELSE IF cmd = "checkoutPr" THEN PrBranch(prNumber)
    ELSE IF cmd = "checkoutB" THEN RefactorBranch(prNumber)
    ELSE IF cmd = "checkoutMain" THEN Main
    ELSE br

\* PRMonitor.start calls processPullRequest(pr): up to await analyzePRChanges,
\* which sends pulls.listFiles.
StepStart(c) ==
    /\ CanRun(c)
    /\ steps[c].pc = "idle"
    /\ \E u \in Units : steps' = [steps EXCEPT ![c] = [NoStep EXCEPT !.pc = "awaitFiles",
                                                                     !.pr = u]]
    /\ running' = 0
    /\ UNCHANGED <<gvars, wf, rvars, detected, hvars, daemon, cycles, processed, xvars>>

\* pulls.listFiles answers: the analysis is computed and runTests is entered.
StepFiles(c) ==
    /\ CanRun(c)
    /\ steps[c].pc = "awaitFiles"
    /\ \E shape \in FileShapes, listFilesFails \in BOOLEAN,
          F \in {G \in RunTestsFailures : Cardinality(G) <= MaxStepFailures} :
           LET r == RunTests(steps[c].pr, branch, F)
           IN steps' = [steps EXCEPT ![c] =
                  [@ EXCEPT !.pc = "runTests",
                            !.analysis = AnalyzePRChanges(shape, listFilesFails),
                            !.success = r.success, !.errors = r.errors,
                            !.ran = r.ran, !.pos = 0, !.fails = F \cap Range(r.ran)]]
    /\ running' = IF HoldsThread("runTests") THEN c ELSE 0
    /\ UNCHANGED <<gvars, wf, rvars, detected, hvars, daemon, cycles, processed, xvars>>

\* One execSync call of the workflow in progress. After the last one the workflow
\* returns: runTests to the await of processPullRequest, triggerRefactoring to the
\* end of processPullRequest.
StepCommand(c) ==
    /\ CanRun(c)
    /\ steps[c].pc \in {"runTests", "trigger"}
    /\ LET st == steps[c]
           cmd == st.ran[st.pos + 1]
           ok == cmd \notin st.fails /\ (cmd = "checkoutB" => st.pr \notin branches)
           last == st.pos + 1 = Len(st.ran)
       IN /\ branch' = BranchAfterCommand(cmd, ok, st.pr, branch)
          /\ branches' = IF ok /\ cmd = "checkoutB" THEN branches \cup {st.pr} ELSE branches
          /\ steps' = [steps EXCEPT ![c] =
                 IF last
                 THEN [st EXCEPT !.pc = IF st.pc = "runTests" THEN "awaitTests" ELSE "done",
                                 !.ran = <<>>, !.pos = 0, !.fails = {}]
                 ELSE [st EXCEPT !.pos = @ + 1]]
          /\ running' = IF ~last /\ HoldsThread(st.pc) THEN c ELSE 0
    /\ UNCHANGED <<wf, rvars, detected, hvars, daemon, cycles, processed, xvars>>

\* processPullRequest resumes with testResults and sends the report with
\* issues.createComment.
StepTested(c) ==
    /\ CanRun(c)
    /\ steps[c].pc = "awaitTests"
    /\ steps' = [steps EXCEPT ![c] =
           [@ EXCEPT !.pc = "awaitComment",
                     !.report = Report(steps[c].analysis,
                                       [success |-> steps[c].success,
                                        errors |-> steps[c].errors])]]
    /\ running' = 0
    /\ UNCHANGED <<gvars, wf, rvars, detected, hvars, daemon, cycles, processed, xvars>>

\* The commands of the analyzer process started by triggerRefactoring: the analysis,
\* then those of generateRefactoringPR.
AnalyzerRuns(u, nSuggestions, Fails, writes) ==
    LET r == TriggerRefactoring(u, nSuggestions, Fails, writes)
    IN [ran |-> <<"analyzer">> \o r.ran,
        fails |-> ((Fails \cup (IF r.made THEN {} ELSE {"checkoutB"})) \cap Range(r.ran))]

\* The mutant of StepComment: triggerRefactoring is entered before the report is
\* posted.
StepTriggerBeforeReport(c) ==
    /\ CanRun(c)
    /\ steps[c].pc = "awaitComment"
    /\ \/ /\ steps[c].success /\ NeedsRefactoring(steps[c].analysis)
          /\ \E n \in 0..1, w \in SUBSET FixTools,
                F \in {G \in RefactorFailures : Cardinality(G) <= MaxStepFailures} :
                 LET a == AnalyzerRuns(steps[c].pr, n, F, w)
                 IN steps' = [steps EXCEPT ![c] =
                        [@ EXCEPT !.pc = "trigger", !.ran = a.ran,
                                  !.pos = 0, !.fails = a.fails]]
          /\ running' = IF HoldsThread("trigger") THEN c ELSE 0
       \/ /\ ~(steps[c].success /\ NeedsRefactoring(steps[c].analysis))
          /\ steps' = [steps EXCEPT ![c] = [@ EXCEPT !.pc = "done", !.posted = @ + 1]]
          /\ running' = 0
    /\ UNCHANGED <<gvars, wf, rvars, detected, hvars, daemon, cycles, processed, xvars>>

\* issues.createComment answers or fails. After a pass report, when the predicate
\* holds, triggerRefactoring is entered.
StepComment(c) ==
    /\ CanRun(c)
    /\ steps[c].pc = "awaitComment"
    /\ \/ /\ steps' = [steps EXCEPT ![c] = [@ EXCEPT !.pc = "failed"]]
          /\ running' = 0
       \/ /\ steps[c].success /\ NeedsRefactoring(steps[c].analysis)
          /\ \E n \in 0..1, w \in SUBSET FixTools,
                F \in {G \in RefactorFailures : Cardinality(G) <= MaxStepFailures} :
                 LET a == AnalyzerRuns(steps[c].pr, n, F, w)
                 IN steps' = [steps EXCEPT ![c] =
                        [@ EXCEPT !.pc = "trigger", !.posted = @ + 1, !.ran = a.ran,
                                  !.pos = 0, !.fails = a.fails]]
          /\ running' = IF HoldsThread("trigger") THEN c ELSE 0
       \/ /\ ~(steps[c].success /\ NeedsRefactoring(steps[c].analysis))
          /\ steps' = [steps EXCEPT ![c] = [@ EXCEPT !.pc = "done", !.posted = @ + 1]]
          /\ running' = 0
    /\ UNCHANGED <<gvars, wf, rvars, detected, hvars, daemon, cycles, processed, xvars>>

\* The for loop of PRMonitor.start: processPullRequest has returned and is called on
\* the next unit.
StepNext(c) ==
    /\ CanRun(c)
    /\ steps[c].pc = "done"
    /\ \E u \in Units \ {steps[c].pr} :
           steps' = [steps EXCEPT ![c] = [NoStep EXCEPT !.pc = "awaitFiles", !.pr = u]]
    /\ running' = 0
    /\ UNCHANGED <<gvars, wf, rvars, detected, hvars, daemon, cycles, processed, xvars>>

InitStepwise ==
    InitTree /\ wf = NoWorkflow /\ InitRemote /\ detected = NoDetection /\ InitRunner
    /\ InitDaemon

NextSteps ==
    \E c \in 1..MaxCycles :
        \/ StepStart(c)
        \/ StepFiles(c)
        \/ StepCommand(c)
        \/ StepTested(c)
        \/ StepComment(c)
        \/ StepNext(c)

SpecSteps == InitStepwise /\ [][NextSteps]_vars

\* The invocation c is inside a branch-switching workflow: runTests or the
\* remediation started by triggerRefactoring has begun and has not returned.
Active(c) == steps[c].pc \in {"runTests", "trigger"}

\* An invocation suspended on a remote call.
Suspended(c) == steps[c].pc \in {"awaitFiles", "awaitTests", "awaitComment"}

\* (C11) At most one branch-switching workflow is active on the working tree at any
\* time, and while one is active no other invocation executes a step, for every
\* interleaving of the invocations at their suspension points.
C11_OneWorkflowAtATime ==
    [][/\ Cardinality({c \in 1..MaxCycles : Active(c)}) <= 1
       /\ \A c \in 1..MaxCycles :
              Active(c) => \A d \in (1..MaxCycles) \ {c} : steps'[d] = steps[d]]_vars

\* A workflow has left the baseline branch while another invocation is suspended on
\* a remote call.
C11_Witness ==
    \E c, d \in 1..MaxCycles :
        /\ c # d
        /\ Active(c) /\ steps[c].pos > 0 /\ branch # Main
        /\ Suspended(d)

C35_StepsInOrder ==
    [][\A c \in 1..MaxCycles :
           LET a == steps[c]
               b == steps'[c]
           IN /\ (b.pc = "runTests" /\ a.pc # "runTests") => a.pc = "awaitFiles"
              /\ (b.pc = "awaitComment" /\ a.pc # "awaitComment") => a.pc = "awaitTests"
              /\ (b.pc = "trigger" /\ a.pc # "trigger") =>
                     (a.pc = "awaitComment" /\ a.posted = 0 /\ b.posted = 1)
              /\ (b.pc = "awaitFiles" /\ a.pc # "awaitFiles") =>
                     a.pc \in {"idle", "done"}]_vars

\* (C35) An invocation is on its second unit after the remediation of the first one
\* created its branch, the other invocations not having started.
C35_Witness ==
    \E c \in 1..MaxCycles :
        /\ steps[c].pc = "awaitFiles"
        /\ branches = Units \ {steps[c].pr}
        /\ branches # {}
        /\ \A d \in (1..MaxCycles) \ {c} : steps[d].pc = "idle"

\* (C36) The remediation workflow begins on the baseline branch: whenever a
\* refactoring branch is created, the active branch at that moment is the baseline
\* branch, whatever the harness runs and remediation runs before it did.
C36_BranchCreatedFromBaseline ==
    [][branches' # branches => branch = Main]_vars

\* (C16) triggerRefactoring is entered for a unit only after a harness run that
\* succeeded, with an analysis that is available and has more than 5 changed files or
\* more than 100 added lines.
C16_RemediationOnlyAfterPassAndPredicate ==
    \A c \in 1..MaxCycles :
        steps[c].pc = "trigger" =>
            /\ steps[c].success
            /\ ~steps[c].analysis.null
            /\ \/ steps[c].analysis.totalFiles > FilesThreshold
               \/ steps[c].analysis.additions > AdditionsThreshold

\* The remediation workflow runs for a unit and has created its branch.
C16_Witness ==
    \E c \in 1..MaxCycles :
        /\ steps[c].pc = "trigger"
        /\ steps[c].pos > 1
        /\ branch = RefactorBranch(steps[c].pr)

\* -------------------------------------------------------------- SpecReport
\* analyzePRChanges on a file list, and the report processPullRequest makes of it.

\* Files in the list pulls.listFiles returns, and lines added per file.
MaxFiles == 2
MaxAdditions == 1

\* The substrings analyzePRChanges looks for in a filename.
CriticalMarkers == {"package.json", "tsconfig", "vite.config", "supabase/migrations"}

\* Filenames, each with the markers filename.includes(...) finds in it.
FileNames ==
    { [path |-> "package.json", marks |-> {"package.json"}],
      [path |-> "tsconfig.app.json", marks |-> {"tsconfig"}],
      [path |-> "vite.config.ts", marks |-> {"vite.config"}],
      [path |-> "supabase/migrations/001_init.sql", marks |-> {"supabase/migrations"}],
      [path |-> "src/App.tsx", marks |-> {}] }

FileEntries == [name : FileNames, additions : 0..MaxAdditions]
FileLists == UNION {[1..n -> FileEntries] : n \in 0..MaxFiles}

\* file.filename.includes('package.json') || ... || includes('supabase/migrations')
IsCriticalFile(name) == name.marks \cap CriticalMarkers # {}

RECURSIVE SumAdditions(_)
SumAdditions(files) ==
    IF files = <<>> THEN 0
    ELSE files[1].additions + SumAdditions(Tail(files))

\* files.length and the reduce over file.additions.
ShapeOf(files) == [totalFiles |-> Len(files), additions |-> SumAdditions(files)]

\* analysis.criticalFiles: the filenames pushed by the forEach, in list order.
CriticalFilesOf(files) ==
    LET crit == SelectSeq(files, LAMBDA f : IsCriticalFile(f.name))
    IN [i \in 1..Len(crit) |-> crit[i].name.path]

\* processPullRequest up to the createComment request, for one file list and one
\* outcome of runTests.
MakeReport ==
    /\ ~posting.done
    /\ \E files \in FileLists, listFilesFails \in BOOLEAN, F \in {{}, {"build"}} :
           LET analysis == AnalyzePRChanges(ShapeOf(files), listFilesFails)
               r == RunTests(1, Main, F)
               test == [success |-> r.success, errors |-> r.errors]
           IN posting' = [done |-> TRUE, files |-> files, analysis |-> analysis,
                          criticalFiles |-> IF analysis.null THEN <<>>
                                            ELSE CriticalFilesOf(files),
                          test |-> test, report |-> Report(analysis, test)]
    /\ UNCHANGED <<gvars, wf, rvars, detected, hvars, dvars, svars, scan, analyzer, gate>>

InitReport ==
    InitTree /\ wf = NoWorkflow /\ InitRemote /\ detected = NoDetection /\ InitRunner
    /\ InitDaemon

NextReport == MakeReport

SpecReport == InitReport /\ [][NextReport]_vars

\* (C23) Every critical file of the unit's file list is in analysis.criticalFiles and
\* its path is mentioned in the report posted to the remote unit.
C23_ReportMentionsCriticalFiles ==
    (posting.done /\ ~posting.analysis.null) =>
        \A i \in 1..Len(posting.files) :
            IsCriticalFile(posting.files[i].name) =>
                /\ posting.files[i].name.path \in Range(posting.criticalFiles)
                /\ posting.files[i].name.path \in posting.report.paths

\* ------------------------------------------------------------ SpecScanners
\* The scanners of the refactoring analyzer, each as a function of its input.

\* ---- checkForLongFunctions

\* Longest function-like block drawn, in lines.
MaxSpan == 52
\* Lines before the declaration line.
MaxLead == 1

\* if (functionLength > 50)
LongFunctionThreshold == 50

\* A source line as the scanner reads it: whether it matches the declaration test
\* (includes 'function ', or 'const ' with ' = ' and '=>'), and its counts of { and }.
PlainLine == [decl |-> FALSE, opens |-> 0, closes |-> 0]
DeclLine == [decl |-> TRUE, opens |-> 1, closes |-> 0]
OpenLine == [decl |-> FALSE, opens |-> 1, closes |-> 0]
CloseLine == [decl |-> FALSE, opens |-> 0, closes |-> 1]

\* A file is a sequence of runs: a line and the number of times it repeats.
\* Here: lead plain lines, then a block of span lines from its declaration line
\* (which holds the opening brace) to its closing-brace line, both counted; with
\* nested, the body starts with an inner block of two lines.
FunctionFile(lead, span, nested) ==
    <<[line |-> PlainLine, count |-> lead],
      [line |-> DeclLine, count |-> 1],
      [line |-> OpenLine, count |-> IF nested THEN 1 ELSE 0],
      [line |-> CloseLine, count |-> IF nested THEN 1 ELSE 0],
      [line |-> PlainLine, count |-> span - 2 - (IF nested THEN 2 ELSE 0)],
      [line |-> CloseLine, count |-> 1]>>

\* The for loop over the lines of one file, from the first line of run k on, which
\* is line i (1-based). start is functionStart + 1; inFunction tells whether
\* currentFunction is set. The body of the loop runs on the first line of the run;
\* on the rest of a run of plain lines it changes nothing (the function, if one was
\* open with braceCount 0, ended on the first), so the loop moves to the next run.
RECURSIVE ScanLines(_, _, _, _, _, _, _)
ScanLines(runs, k, i, inFunction, start, braceCount, out) ==
    IF k > Len(runs) THEN out
    ELSE IF runs[k].count = 0
    THEN ScanLines(runs, k + 1, i, inFunction, start, braceCount, out)
    ELSE LET line == runs[k].line
             begins == line.decl /\ braceCount = 0
             cur == inFunction \/ begins
             st == IF begins THEN i ELSE start
             bc == braceCount + line.opens - line.closes
             ends == cur /\ bc = 0 /\ i > st
             functionLength == i - st
             out2 == IF ends /\ functionLength > LongFunctionThreshold
                     THEN Append(out, [type |-> "refactor", line |-> st,
                                       length |-> functionLength, severity |-> "medium"])
                     ELSE out
         IN IF line = PlainLine
            THEN ScanLines(runs, k + 1, i + runs[k].count, cur /\ ~ends, st, bc, out2)
            ELSE ScanLines([runs EXCEPT ![k].count = @ - 1], k, i + 1,
                           cur /\ ~ends, st, bc, out2)

\* RefactorAnalyzer.checkForLongFunctions on one file.
CheckForLongFunctions(runs) == ScanLines(runs, 1, 1, FALSE, 0, 0, <<>>)

ScanLongFunctions ==
    /\ scan.kind = "none"
    /\ \E lead \in 0..MaxLead, span \in 2..MaxSpan, nested \in BOOLEAN :
           /\ nested => span >= 4
           /\ scan' = [kind |-> "longFunctions",
                       input |-> [lead |-> lead, span |-> span, nested |-> nested],
                       out |-> CheckForLongFunctions(FunctionFile(lead, span, nested))]
    /\ UNCHANGED <<gvars, wf, rvars, detected, hvars, dvars, svars, posting, analyzer, gate>>

\* ---- checkForDuplicateCode

\* Lines per scanned file, and distinct texts a line can hold.
MaxLines == 6
MaxText == 1

\* lines.slice(i, i + 5)
BlockLines == 5
\* if (block.length > 50)
MinBlockLength == 50
\* The length of a line of text, in characters; a blank line has none.
TextLength == 12

\* A line is blank (0) or one of the texts 1..MaxText; the texts have no leading or
\* trailing white space.
LineTexts == 0..MaxText
SourceFiles == UNION {[1..n -> LineTexts] : n \in 0..MaxLines}

\* String.prototype.trim on the joined block: the blank lines at both ends go, with
\* the newlines that joined them.
RECURSIVE TrimBlock(_)
TrimBlock(b) ==
    IF b = <<>> THEN b
    ELSE IF b[1] = 0 THEN TrimBlock(Tail(b))
    ELSE IF b[Len(b)] = 0 THEN TrimBlock(SubSeq(b, 1, Len(b) - 1))
    ELSE b

\* The length of the trimmed block: its texts and the newlines between its lines.
BlockLength(t) ==
    IF t = <<>> THEN 0
    ELSE TextLength * Cardinality({i \in 1..Len(t) : t[i] # 0}) + (Len(t) - 1)

\* The windows of the scan in scan order: file by file, i from 0 to lines.length - 5.
WindowsOf(files, f) ==
    [i \in 1..(IF Len(files[f]) >= BlockLines THEN Len(files[f]) - BlockLines + 1 ELSE 0) |->
        [file |-> f, line |-> i, raw |-> SubSeq(files[f], i, i + BlockLines - 1)]]

RECURSIVE AllWindows(_, _)
AllWindows(files, f) ==
    IF f > Len(files) THEN <<>>
    ELSE WindowsOf(files, f) \o AllWindows(files, f + 1)

\* The loop body on the windows from position k on: seen is the codeBlocks map.
RECURSIVE DuplicateScan(_, _, _, _)
DuplicateScan(ws, k, seen, out) ==
    IF k > Len(ws) THEN out
    ELSE LET w == ws[k]
             block == TrimBlock(w.raw)
         IN IF BlockLength(block) > MinBlockLength
            THEN IF \E e \in seen : e.block = block
                 THEN LET existing == CHOOSE e \in seen : e.block = block
                      IN DuplicateScan(ws, k + 1, seen,
                             Append(out, [type |-> "refactor", file |-> w.file,
                                          line |-> w.line, alsoFile |-> existing.file,
                                          alsoLine |-> existing.line,
                                          severity |-> "medium"]))
                 ELSE DuplicateScan(ws, k + 1,
                          seen \cup {[block |-> block, file |-> w.file, line |-> w.line]},
                          out)
            ELSE DuplicateScan(ws, k + 1, seen, out)

\* RefactorAnalyzer.checkForDuplicateCode on the files in getSourceFiles order.
CheckForDuplicateCode(files) == DuplicateScan(AllWindows(files, 1), 1, {}, <<>>)

ScanDuplicateCode ==
    /\ scan.kind = "none"
    /\ \E a \in SourceFiles, b \in SourceFiles :
           scan' = [kind |-> "duplicates", input |-> <<a, b>>,
                    out |-> CheckForDuplicateCode(<<a, b>>)]
    /\ UNCHANGED <<gvars, wf, rvars, detected, hvars, dvars, svars, posting, analyzer, gate>>

\* ---- checkForUnusedImports

\* Files in the lint tool's output, and findings of one kind per file.
MaxLintFiles == 2
MaxFindings == 1

\* The messages of one file in the JSON output, by kind: unused are the
\* no-unused-vars messages that hold 'is defined but never used', assigned the other
\* no-unused-vars messages, errors the messages of other rules at error level,
\* warnings the messages at warning level. The command line sets no-unused-vars to
\* error, so unused and assigned are at error level.
LintFileResults == [unused : 0..MaxFindings, assigned : 0..MaxFindings,
                    errors : 0..MaxFindings, warnings : 0..MaxFindings]
LintOutputs == UNION {[1..n -> LintFileResults] : n \in 0..MaxLintFiles}

\* The exit status of eslint: 1 when a message at error level is reported, else 0.
EslintExit(eslintResults) ==
    IF \E i \in 1..Len(eslintResults) :
           eslintResults[i].unused + eslintResults[i].assigned + eslintResults[i].errors > 0
    THEN 1 ELSE 0

\* The for loop over the file results.
RECURSIVE UnusedImportSuggestions(_, _)
UnusedImportSuggestions(eslintResults, i) ==
    IF i > Len(eslintResults) THEN <<>>
    ELSE (IF eslintResults[i].unused > 0
          THEN <<[type |-> "cleanup", file |-> i, count |-> eslintResults[i].unused,
                  severity |-> "low"]>>
          ELSE <<>>) \o UnusedImportSuggestions(eslintResults, i + 1)

\* RefactorAnalyzer.checkForUnusedImports: execSync throws when the tool cannot be
\* run and when it exits non-zero; the catch logs and nothing is emitted.
CheckForUnusedImports(eslintResults, toolFails) ==
    IF toolFails \/ EslintExit(eslintResults) # 0 THEN <<>>
    ELSE UnusedImportSuggestions(eslintResults, 1)

ScanUnusedImports ==
    /\ scan.kind = "none"
    /\ \E eslintResults \in LintOutputs, toolFails \in BOOLEAN :
           scan' = [kind |-> "unusedImports",
                    input |-> [eslintResults |-> eslintResults, toolFails |-> toolFails],
                    out |-> CheckForUnusedImports(eslintResults, toolFails)]
    /\ UNCHANGED <<gvars, wf, rvars, detected, hvars, dvars, svars, posting, analyzer, gate>>

\* ---- checkForConsistencyIssues

\* Largest project-wide count of one style.
MaxCount == 2

\* The aggregated counts: patterns.quotes, patterns.semicolons, patterns.indentation.
StyleCounts == [single : 0..MaxCount, double : 0..MaxCount,
                with : 0..MaxCount, without : 0..MaxCount,
                spaces : 0..MaxCount, tabs : 0..MaxCount]

\* The report of RefactorAnalyzer.checkForConsistencyIssues: the quotes are the only
\* dimension it reports; the suggestion has no file and no line.
CheckForConsistencyIssues(patterns) ==
    IF patterns.single > 0 /\ patterns.double > 0
    THEN <<[type |-> "consistency", dimension |-> "quotes",
            dominant |-> IF patterns.single > patterns.double THEN "single" ELSE "double",
            severity |-> "low", anchored |-> FALSE]>>
    ELSE <<>>

ScanConsistency ==
    /\ scan.kind = "none"
    /\ \E patterns \in StyleCounts :
           scan' = [kind |-> "consistency", input |-> patterns,
                    out |-> CheckForConsistencyIssues(patterns)]
    /\ UNCHANGED <<gvars, wf, rvars, detected, hvars, dvars, svars, posting, analyzer, gate>>

InitScanners ==
    InitTree /\ wf = NoWorkflow /\ InitRemote /\ detected = NoDetection /\ InitRunner
    /\ InitDaemon

NextScanners ==
    \/ ScanLongFunctions
    \/ ScanDuplicateCode
    \/ ScanUnusedImports
    \/ ScanConsistency

SpecScanners == InitScanners /\ [][NextScanners]_vars

\* The suggestions of a scan that point at the given file and line.
AnchoredAt(out, file, line) ==
    {j \in 1..Len(out) : out[j].file = file /\ out[j].line = line}

\* The positions, in scan order, of the windows whose five raw lines are the given ones.
Occurrences(ws, raw) == {k \in 1..Len(ws) : ws[k].raw = raw}

\* (C26) A 5-line block, longer than 50 characters, that occurs k >= 2 times in the
\* scanned files yields exactly k - 1 suggestions at its occurrences: one at each
\* occurrence after the first, each referencing the file and line of the first.
C26_OneSuggestionPerRepeat ==
    scan.kind = "duplicates" =>
        LET ws == AllWindows(scan.input, 1)
        IN \A k \in 1..Len(ws) :
               LET occ == Occurrences(ws, ws[k].raw)
                   first == CHOOSE o \in occ : \A o2 \in occ : o <= o2
                   at == UNION {AnchoredAt(scan.out, ws[o].file, ws[o].line) : o \in occ}
               IN (BlockLength(TrimBlock(ws[k].raw)) > MinBlockLength
                   /\ Cardinality(occ) >= 2) =>
                      /\ Cardinality(at) = Cardinality(occ) - 1
                      /\ \A o \in occ \ {first} :
                             \E j \in AnchoredAt(scan.out, ws[o].file, ws[o].line) :
                                 /\ scan.out[j].alsoFile = ws[first].file
                                 /\ scan.out[j].alsoLine = ws[first].line

\* The five raw lines of the window of a file that starts at a line.
RawAt(files, file, line) == SubSeq(files[file], line, line + BlockLines - 1)

\* (C40) Every suggestion of the duplicate scan relates two distinct windows whose
\* five raw lines are identical; none relates a window to one that differs from it by
\* a blank line at an end, removed by the trimming.
C40_SuggestionsRelateIdenticalBlocks ==
    scan.kind = "duplicates" =>
        \A j \in 1..Len(scan.out) :
            LET sg == scan.out[j]
            IN /\ <<sg.file, sg.line>> # <<sg.alsoFile, sg.alsoLine>>
               /\ RawAt(scan.input, sg.file, sg.line) =
                      RawAt(scan.input, sg.alsoFile, sg.alsoLine)

\* A suggestion of the long-function scan for the block of the drawn file.
Flagged ==
    \E j \in 1..Len(scan.out) :
        /\ scan.out[j].line = scan.input.lead + 1
        /\ scan.out[j].severity = "medium"

\* (C27) A function-like block of exactly 51 lines, declaration line and closing-brace
\* line both counted, is flagged with a medium-severity suggestion; one of exactly 50
\* lines is not.
C27_LongFunctionBoundary ==
    scan.kind = "longFunctions" =>
        /\ scan.input.span = LongFunctionThreshold + 1 => Flagged
        /\ scan.input.span = LongFunctionThreshold => ~Flagged

\* (C28) When the lint tool runs and reports, for a file, at least one finding of an
\* unused binding, the scan holds exactly one suggestion for that file, of type
\* cleanup and of low severity.
C28_OneCleanupPerFileWithFindings ==
    (scan.kind = "unusedImports" /\ ~scan.input.toolFails) =>
        \A i \in 1..Len(scan.input.eslintResults) :
            scan.input.eslintResults[i].unused > 0 =>
                /\ Cardinality({j \in 1..Len(scan.out) : scan.out[j].file = i}) = 1
                /\ \A j \in 1..Len(scan.out) :
                       scan.out[j].file = i =>
                           scan.out[j].type = "cleanup" /\ scan.out[j].severity = "low"

\* The two counts of each style dimension, with the names of the two styles.
Dimensions ==
    {[name |-> "quotes", a |-> "single", b |-> "double"],
     [name |-> "semicolons", a |-> "with", b |-> "without"],
     [name |-> "indentation", a |-> "spaces", b |-> "tabs"]}

\* (C30) For each of the three style dimensions: when both styles are counted above
\* zero the scan holds one suggestion for the dimension, of low severity, without file
\* or line, naming a style with the larger count; when only one style is counted it
\* holds none for the dimension.
C30_EachDimensionReported ==
    scan.kind = "consistency" =>
        \A d \in Dimensions :
            LET na == scan.input[d.a]
                nb == scan.input[d.b]
                about == {j \in 1..Len(scan.out) : scan.out[j].dimension = d.name}
            IN IF na > 0 /\ nb > 0
               THEN /\ Cardinality(about) = 1
                    /\ \A j \in about :
                           /\ scan.out[j].severity = "low"
                           /\ ~scan.out[j].anchored
                           /\ scan.out[j].dominant = d.a => na >= nb
                           /\ scan.out[j].dominant = d.b => nb >= na
               ELSE about = {}

\* ------------------------------------------------------------ SpecAnalyzer
\* analyzeCodeQuality: the six scanners, awaited one after the other.

\* Suggestions one scanner can add.
MaxSuggestions == 1

Scanners ==
    <<"checkForLongFunctions", "checkForDuplicateCode", "checkForComplexComponents",
      "checkForMissingTypes", "checkForUnusedImports", "checkForConsistencyIssues">>

\* The scanners whose body is inside a try/catch of their own.
CatchesOwnFailure == {"checkForUnusedImports"}

\* One await of analyzeCodeQuality. The scanner either completes and adds n
\* suggestions, or a failure is raised inside it (readFileSync or readdirSync throws
\* on a source file, execSync throws on the lint tool). Only checkForUnusedImports
\* catches it: it logs and adds nothing. From the others the exception leaves
\* analyzeCodeQuality, which has no try/catch, and run() is rejected.
AnalyzeCodeQualityStep ==
    /\ analyzer.pc \in {"idle", "running"}
    /\ \E fails \in BOOLEAN, n \in 0..MaxSuggestions :
           LET name == Scanners[analyzer.next]
           IN IF fails /\ name \notin CatchesOwnFailure
              THEN analyzer' = [analyzer EXCEPT !.pc = "threw", !.threw = analyzer.next]
              ELSE analyzer' =
                     [pc |-> IF analyzer.next = Len(Scanners) THEN "returned" ELSE "running",
                      next |-> analyzer.next + 1,
                      ran |-> Append(analyzer.ran,
                                     [name |-> name, failed |-> fails,
                                      suggestions |-> IF fails THEN 0 ELSE n]),
                      threw |-> 0]
    /\ UNCHANGED <<gvars, wf, rvars, detected, hvars, dvars, svars, posting, scan, gate>>

InitAnalyzeCodeQuality ==
    InitTree /\ wf = NoWorkflow /\ InitRemote /\ detected = NoDetection /\ InitRunner
    /\ InitDaemon

NextAnalyzer == AnalyzeCodeQualityStep

SpecAnalyzer == InitAnalyzeCodeQuality /\ [][NextAnalyzer]_vars

\* (C29) A failure raised inside any one scanner is caught: analyzeCodeQuality does not
\* end by the exception, and when it has ended every one of the six scanners has run.
C29_ScannerFailureIsCaught ==
    /\ analyzer.pc # "threw"
    /\ analyzer.pc = "returned" =>
           {analyzer.ran[k].name : k \in 1..Len(analyzer.ran)} = Range(Scanners)

\* ------------------------------------------------------------ SpecDescription
\* generatePRDescription: the description of the refactoring pull request.

\* Suggestions in the list, and files they point at.
MaxListed == 3
MaxListedFiles == 2

Severities == <<"high", "medium", "low">>
Messages == {"long", "duplicate"}

\* this.suggestions: what the description reads of every suggestion.
Suggestion == [severity : Range(Severities), file : 1..MaxListedFiles, message : Messages]
SuggestionLists == UNION {[1..n -> Suggestion] : n \in 0..MaxListed}

\* this.suggestions.filter(s => s.severity === severity)
WithSeverity(suggestions, severity) ==
    SelectSeq(suggestions, LAMBDA x : x.severity = severity)

\* The lines a list of one severity adds: forEach(s => `- **${s.file}**: ${s.message}`)
EntryLines(list) ==
    [k \in 1..Len(list) |->
        [kind |-> "entry", file |-> list[k].file, message |-> list[k].message]]

\* A section that is written whatever the length of its list.
SectionAlways(suggestions, severity) ==
    LET list == WithSeverity(suggestions, severity)
    IN <<[kind |-> "heading", severity |-> severity, count |-> Len(list)]>>
       \o EntryLines(list) \o <<[kind |-> "blank"]>>

\* One if (list.length > 0) { heading; entries; blank line } block.
Section(suggestions, severity) ==
    LET list == WithSeverity(suggestions, severity)
    IN IF Len(list) > 0
       THEN <<[kind |-> "heading", severity |-> severity, count |-> Len(list)]>>
            \o EntryLines(list) \o <<[kind |-> "blank"]>>
       ELSE <<>>

\* RefactorAnalyzer.generatePRDescription, as the sequence of its lines.
GeneratePRDescription(suggestions) ==
    <<[kind |-> "title"], [kind |-> "intro"]>>
    \o Section(suggestions, "high")
    \o Section(suggestions, "medium")
    \o Section(suggestions, "low")
    \o <<[kind |-> "fixesNote"], [kind |-> "fix", tool |-> "eslint"],
         [kind |-> "fix", tool |-> "prettier"],
         [kind |-> "reviewNote"], [kind |-> "footer"]>>

Describe ==
    /\ scan.kind = "none"
    /\ \E suggestions \in SuggestionLists :
           scan' = [kind |-> "description", input |-> suggestions,
                    out |-> GeneratePRDescription(suggestions)]
    /\ UNCHANGED <<gvars, wf, rvars, detected, hvars, dvars, svars, posting, analyzer, gate>>

InitDescription ==
    InitTree /\ wf = NoWorkflow /\ InitRemote /\ detected = NoDetection /\ InitRunner
    /\ InitDaemon

NextDescription == Describe

SpecDescription == InitDescription /\ [][NextDescription]_vars

\* The place of a severity in the order High, Medium, Low.
SeverityRank(severity) == CHOOSE k \in 1..Len(Severities) : Severities[k] = severity

\* The positions of the headings of a description, and of the heading of one severity.
Headings(d) == {i \in 1..Len(d) : d[i].kind = "heading"}
HeadingOf(d, severity) == {i \in Headings(d) : d[i].severity = severity}

\* The entries listed under the heading at position i: the lines after it up to the
\* next line that is not an entry.
RECURSIVE EntriesFrom(_, _)
EntriesFrom(d, i) ==
    IF i > Len(d) \/ d[i].kind # "entry" THEN <<>>
    ELSE <<d[i]>> \o EntriesFrom(d, i + 1)

\* (C31) In the description the High, Medium and Low sections come in that order; a
\* section is there exactly when a suggestion has its severity; every suggestion is
\* listed once, under the heading of its severity, and nowhere else; the note on the
\* automatic fixes comes after the sections.
C31_DescriptionSections ==
    scan.kind = "description" =>
        LET d == scan.out
            note == {i \in 1..Len(d) : d[i].kind = "fixesNote"}
        IN /\ \A i, j \in Headings(d) :
                  i < j => SeverityRank(d[i].severity) < SeverityRank(d[j].severity)
           /\ \A severity \in Range(Severities) :
                  /\ HeadingOf(d, severity) # {} <=>
                         WithSeverity(scan.input, severity) # <<>>
                  /\ \A i \in HeadingOf(d, severity) :
                         EntriesFrom(d, i + 1) =
                             EntryLines(WithSeverity(scan.input, severity))
           /\ Cardinality({i \in 1..Len(d) : d[i].kind = "entry"}) = Len(scan.input)
           /\ Cardinality(note) = 1
           /\ \A n \in note : \A i \in 1..Len(d) :
                  d[i].kind \in {"heading", "entry"} => i < n

\* (C31) A list with one high, no medium and two low suggestions was described.
C31_Witness ==
    /\ scan.kind = "description"
    /\ Len(WithSeverity(scan.input, "high")) = 1
    /\ Len(WithSeverity(scan.input, "medium")) = 0
    /\ Len(WithSeverity(scan.input, "low")) = 2

\* ------------------------------------------------------------ SpecLint
\* TestRunner.testLinting: the lint check of the harness.

\* Findings of one severity in a lint run.
MaxProblems == 2

\* The words the output of the lint tool is made of, and the words that hold the
\* text 'error' and the text 'warning' (String.prototype.includes is a substring
\* test, case-sensitive).
HoldError == {"error", "errors", "src/errors.ts"}
HoldWarning == {"warning", "warnings"}

\* A run of `npm run lint`: its findings by severity, the file they are in, whether
\* the tool is told to exit non-zero on warnings (--max-warnings), whether it could
\* not run at all, and whether its formatter ends the output with the line of totals
\* ('N problems (E errors, W warnings)').
LintRuns == [errorFindings : 0..MaxProblems, warningFindings : 0..MaxProblems,
             path : {"src/app.ts", "src/errors.ts"}, strict : BOOLEAN,
             crashed : BOOLEAN, totals : BOOLEAN]

\* error.stdout: the words of the output. A finding is written as its file, its
\* severity and its rule; nothing is written on stdout when the tool could not run or
\* found nothing.
LintStdout(run) ==
    IF run.crashed \/ run.errorFindings + run.warningFindings = 0 THEN {}
    ELSE {run.path}
         \cup (IF run.errorFindings > 0 THEN {"error"} ELSE {})
         \cup (IF run.warningFindings > 0 THEN {"warning"} ELSE {})
         \cup (IF run.totals THEN {"problems", "errors", "warnings"} ELSE {})

\* The exit status of the lint command.
LintExit(run) ==
    IF run.crashed THEN 2
    ELSE IF run.errorFindings > 0 THEN 1
    ELSE IF run.strict /\ run.warningFindings > 0 THEN 1
    ELSE 0

\* output.includes('warning') && !output.includes('error')
JustWarnings(output) ==
    /\ output \cap HoldWarning # {}
    /\ output \cap HoldError = {}

\* TestRunner.testLinting: resolves (TRUE) or rejects (FALSE).
TestLinting(run) ==
    IF LintExit(run) = 0 THEN TRUE
    ELSE JustWarnings(LintStdout(run))

RunLint ==
    /\ scan.kind = "none"
    /\ \E run \in LintRuns :
           scan' = [kind |-> "lint", input |-> run,
                    out |-> [exit |-> LintExit(run), passed |-> TestLinting(run)]]
    /\ UNCHANGED <<gvars, wf, rvars, detected, hvars, dvars, svars, posting, analyzer, gate>>

InitLint ==
    InitTree /\ wf = NoWorkflow /\ InitRemote /\ detected = NoDetection /\ InitRunner
    /\ InitDaemon

NextLint == RunLint

SpecLint == InitLint /\ [][NextLint]_vars

\* (C32) When the lint tool exits non-zero, the lint check passes if the tool reported
\* warnings and no finding of error severity, and fails if it reported a finding of
\* error severity or reported nothing.
C32_LintDecidedFromFindings ==
    (scan.kind = "lint" /\ scan.out.exit # 0) =>
        LET nErrors == IF scan.input.crashed THEN 0 ELSE scan.input.errorFindings
            nWarnings == IF scan.input.crashed THEN 0 ELSE scan.input.warningFindings
        IN scan.out.passed <=> (nWarnings > 0 /\ nErrors = 0)

\* ------------------------------------------------------------ SpecConfig
\* The configuration of the daemon and the processing of a unit under it.

ConfigFlags == {"enableAutoRefactoring", "enableAutoTesting"}

\* monitor-config.json: absent, not JSON, or an object that sets some of the flags.
ConfigFiles ==
    {[kind |-> "absent", user |-> <<>>], [kind |-> "garbage", user |-> <<>>]}
    \cup {[kind |-> "json", user |-> u] :
              u \in UNION {[K -> BOOLEAN] : K \in SUBSET ConfigFlags}}

\* MonitorDaemon.loadConfig: { ...defaultConfig, ...userConfig }, or the default when
\* the file is absent or cannot be parsed.
LoadConfig(file) ==
    IF file.kind = "json"
    THEN [k \in ConfigFlags |->
              IF k \in DOMAIN file.user THEN file.user[k] ELSE DefaultConfig[k]]
    ELSE DefaultConfig

\* MonitorDaemon.constructor: new PRMonitor() takes no argument; this.config is kept
\* by the daemon.
ConstructDaemon ==
    /\ gate.pc = "new"
    /\ \E file \in ConfigFiles :
           gate' = [gate EXCEPT !.pc = "loaded", !.config = LoadConfig(file)]
    /\ UNCHANGED <<gvars, wf, rvars, detected, hvars, dvars, svars, posting, scan,
                   analyzer>>

\* PRMonitor.processPullRequest on one unit, with the daemon's configuration loaded.
\* The monitor holds no reference to the configuration: the harness runs, and after a
\* posted pass report the predicate alone decides the launch of the analyzer.
ProcessUnderConfig ==
    /\ gate.pc = "loaded"
    /\ \E u \in Units, shape \in FileShapes, listFilesFails \in BOOLEAN,
          F \in RunTestsFailures, commentFails \in BOOLEAN :
           LET analysis == AnalyzePRChanges(shape, listFilesFails)
               t == RunTests(u, branch, F)
               launches == t.success /\ ~commentFails /\ NeedsRefactoring(analysis)
           IN IF launches
              THEN \E n \in 0..1, F2 \in RefactorFailures, w \in SUBSET FixTools :
                       LET r == GenerateRefactoringPR(u, n, t.branch, branches, F2, w)
                       IN /\ branch' = r.branch
                          /\ branches' = r.branches
                          /\ gate' = [gate EXCEPT !.pc = "processed",
                                         !.harnessRan = TRUE, !.success = TRUE,
                                         !.launched = TRUE, !.opened = r.opened]
              ELSE /\ branch' = t.branch
                   /\ UNCHANGED branches
                   /\ gate' = [gate EXCEPT !.pc = "processed", !.harnessRan = TRUE,
                                           !.success = t.success]
    /\ UNCHANGED <<wf, rvars, detected, hvars, dvars, svars, posting, scan, analyzer>>

\* The next unit of the loop of PRMonitor.start.
NextUnitUnderConfig ==
    /\ gate.pc = "processed"
    /\ gate' = [NoGate EXCEPT !.pc = "loaded", !.config = gate.config]
    /\ UNCHANGED <<gvars, wf, rvars, detected, hvars, dvars, svars, posting, scan,
                   analyzer>>

InitConfig ==
    InitTree /\ wf = NoWorkflow /\ InitRemote /\ detected = NoDetection /\ InitRunner
    /\ InitDaemon

NextConfig == ConstructDaemon \/ ProcessUnderConfig \/ NextUnitUnderConfig

SpecConfig == InitConfig /\ [][NextConfig]_vars

\* (C33) When enableAutoRefactoring is false, the processing of a unit launches no
\* remediation workflow and creates no refactoring unit; when enableAutoTesting is
\* false, it does not run the harness.
C33_FlagsAreHonoured ==
    gate.pc = "processed" =>
        /\ ~gate.config.enableAutoRefactoring => (~gate.launched /\ ~gate.opened)
        /\ ~gate.config.enableAutoTesting => ~gate.harnessRan

====
